---- MODULE Spec2Model ----
(***************************************************************************)
(* Model of cmd/clusterawsadm/cloudformation/bootstrap/template.go:        *)
(* Template.NewManagedName, Template.RenderCloudFormation and              *)
(* assumeRolePolicy.  RenderCloudFormation is modelled as a state machine  *)
(* with one action per assembly step (the eight steps of the function      *)
(* body); every step inserts its resources into the Resources map of a     *)
(* CloudFormation template.                                                *)
(***************************************************************************)
EXTENDS Integers, Sequences, FiniteSets, TLC

VARIABLES
    spec,        \* t.Spec: the AWSIAMConfigurationSpec the Template points to
    template,    \* template.Resources of the running (or last) RenderCloudFormation
    pending,     \* assembly steps of the running call that have not executed yet
    pc,          \* "idle" | "running" | "panicked"
    writes,      \* history: logical name -> number of map assignments in this call
    inOrder,     \* TRUE: steps run in program order; FALSE: in any order
    outOfOrder,  \* history: some step of this call ran before an earlier pending step
    results,     \* history: EnableCSIPolicy value -> map returned for it
    call         \* last call of a builder function with its argument and result

vars == <<spec, template, pending, pc, writes, inOrder, outOfOrder, results, call>>

----------------------------------------------------------------------------
(* Bounds of the model *)

\* longest ExtraPolicyAttachments list a group carries
MaxExtraPolicies == 1

----------------------------------------------------------------------------
(* Logical names: the const block *)

AWSIAMGroupBootstrapper == "AWSIAMGroupBootstrapper"
AWSIAMInstanceProfileControllers == "AWSIAMInstanceProfileControllers"
AWSIAMInstanceProfileControlPlane == "AWSIAMInstanceProfileControlPlane"
AWSIAMInstanceProfileNodes == "AWSIAMInstanceProfileNodes"
AWSIAMRoleControllers == "AWSIAMRoleControllers"
AWSIAMRoleControlPlane == "AWSIAMRoleControlPlane"
AWSIAMRoleNodes == "AWSIAMRoleNodes"
AWSIAMRoleEKSControlPlane == "AWSIAMRoleEKSControlPlane"
AWSIAMUserBootstrapper == "AWSIAMUserBootstrapper"
ControllersPolicy == "AWSIAMManagedPolicyControllers"
ControlPlanePolicy == "AWSIAMManagedPolicyCloudProviderControlPlane"
NodePolicy == "AWSIAMManagedPolicyCloudProviderNodes"
CSIPolicy == "AWSEBSCSIPolicyController"

(* Resource types of the cfn_iam structs stored in the map *)
TypeUser == "AWS::IAM::User"
TypeGroup == "AWS::IAM::Group"
TypeManagedPolicy == "AWS::IAM::ManagedPolicy"
TypeRole == "AWS::IAM::Role"
TypeInstanceProfile == "AWS::IAM::InstanceProfile"

(* iamv1 constants used by assumeRolePolicy *)
CurrentVersion == "2012-10-17"
EffectAllow == "Allow"
PrincipalService == "Service"

----------------------------------------------------------------------------
(* Values *)

\* a nil *string
Nil == <<>>
\* a pointer to the string s
PtrTo(s) == <<s>>
\* *p
Deref(p) == p[1]

\* the elements of a list
Range(s) == {s[i] : i \in DOMAIN s}

\* cloudformation.Ref(logicalName): a reference by logical name, not the name itself
Ref(logicalName) == [Ref |-> logicalName]

\* fmt.Sprintf over a format given as its sequence of verbs and literals
RECURSIVE Sprintf(_, _)
Sprintf(format, args) ==
    IF format = <<>> THEN ""
    ELSE IF Head(format) = "%s"
         THEN Head(args) \o Sprintf(Tail(format), Tail(args))
         ELSE Head(format) \o Sprintf(Tail(format), args)

----------------------------------------------------------------------------
(* Naming Resolver *)

NewManagedName_swapped(t, name) ==
    Sprintf(<<"%s", "%s", "%s">>, <<name, t.NamePrefix, Deref(t.NameSuffix)>>)

\* func (t Template) NewManagedName(name string) string; t.Spec.NameSuffix non-nil
NewManagedName(t, name) ==
    Sprintf(<<"%s", "%s", "%s">>, <<t.NamePrefix, name, Deref(t.NameSuffix)>>)

----------------------------------------------------------------------------
(* Policy Document Builder *)

assumeRolePolicy_deny(principalID) ==
    [Version |-> CurrentVersion,
     Statement |-> <<[Effect |-> "Deny",
                      Principal |-> (PrincipalService :> <<principalID>>),
                      Action |-> <<"sts:AssumeRole">>]>>]

\* func assumeRolePolicy(principalID string) *iamv1.PolicyDocument
assumeRolePolicy(principalID) ==
    [Version |-> CurrentVersion,
     Statement |-> <<[Effect |-> EffectAllow,
                      Principal |-> (PrincipalService :> <<principalID>>),
                      Action |-> <<"sts:AssumeRole">>]>>]

\* func ec2AssumeRolePolicy() *iamv1.PolicyDocument
ec2AssumeRolePolicy == assumeRolePolicy("ec2.amazonaws.com")

----------------------------------------------------------------------------
(* Parts of the package that template.go calls: catalogs, trust policies, *)
(* attachment lists, tag conversion.                                       *)

\* a permission catalog: a fixed policy document identified by its name
PolicyCatalog(name) ==
    [Version |-> CurrentVersion,
     Statement |-> <<[Effect |-> EffectAllow, Catalog |-> name]>>]

\* converters.MapToCloudFormationTags: a tag mapping as a collection of Key/Value tags
MapToCloudFormationTags(tags) ==
    {[Key |-> k, Value |-> tags[k]] : k \in DOMAIN tags}

bootstrapUserGroups(t) == <<Ref(AWSIAMGroupBootstrapper)>>
bootstrapUserPolicy(t) ==
    <<[PolicyName |-> "bootstrap-user", PolicyDocument |-> PolicyCatalog("bootstrap-user")]>>
controllersPolicy(t) == PolicyCatalog("controllers")
controllersPolicyGroups(t) ==
    IF t.BootstrapUser.Enable THEN <<Ref(AWSIAMGroupBootstrapper)>> ELSE <<>>
controllersPolicyRoleAttachments(t) == <<Ref(AWSIAMRoleControllers)>>
cloudProviderControlPlaneAwsPolicy(t) == PolicyCatalog("cloud-provider-control-plane")
cloudProviderControlPlaneAwsRoles(t) == <<Ref(AWSIAMRoleControlPlane)>>
nodePolicy(t) == PolicyCatalog("cloud-provider-nodes")
cloudProviderNodeAwsRoles(t) == <<Ref(AWSIAMRoleNodes)>>
csiControllerPolicy(t) == PolicyCatalog("csi")
csiControlPlaneAwsRoles(t) == <<Ref(AWSIAMRoleControlPlane)>>
controlPlaneTrustPolicy(t) == ec2AssumeRolePolicy
controllersTrustPolicy(t) == ec2AssumeRolePolicy
nodeTrustPolicy(t) == ec2AssumeRolePolicy
controlPlanePolicies(t) ==
    <<[PolicyName |-> "control-plane", PolicyDocument |-> PolicyCatalog("control-plane-inline")]>>
nodePolicies(t) ==
    <<[PolicyName |-> "nodes", PolicyDocument |-> PolicyCatalog("nodes-inline")]>>
DefaultEKSControlPlaneRole == "eks-controlplane.cluster-api-provider-aws.sigs.k8s.io"
eksAssumeRolePolicy == assumeRolePolicy("eks.amazonaws.com")
eksControlPlanePolicies(t) == <<"arn:aws:iam::aws:policy/AmazonEKSClusterPolicy">>

----------------------------------------------------------------------------
(* Resource Assembler: the resources each step of RenderCloudFormation      *)
(* assigns, as the list of (logical name, resource) assignments in program  *)
(* order.                                                                   *)

Assign(key, resource) == [key |-> key, resource |-> resource]

BootstrapUserResources_groupAlways(t) ==
    (IF t.BootstrapUser.Enable
     THEN <<Assign(AWSIAMUserBootstrapper,
                   [Type |-> TypeUser,
                    UserName |-> t.BootstrapUser.UserName,
                    Groups |-> bootstrapUserGroups(t),
                    ManagedPolicyArns |-> t.ControlPlane.ExtraPolicyAttachments,
                    Policies |-> bootstrapUserPolicy(t),
                    Tags |-> MapToCloudFormationTags(t.BootstrapUser.Tags)])>>
     ELSE <<>>)
    \o <<Assign(AWSIAMGroupBootstrapper,
                [Type |-> TypeGroup, GroupName |-> t.BootstrapUser.GroupName])>>

\* step 1: if t.Spec.BootstrapUser.Enable { User; Group }
BootstrapUserResources(t) ==
    IF t.BootstrapUser.Enable
    THEN <<Assign(AWSIAMUserBootstrapper,
                  [Type |-> TypeUser,
                   UserName |-> t.BootstrapUser.UserName,
                   Groups |-> bootstrapUserGroups(t),
                   ManagedPolicyArns |-> t.ControlPlane.ExtraPolicyAttachments,
                   Policies |-> bootstrapUserPolicy(t),
                   Tags |-> MapToCloudFormationTags(t.BootstrapUser.Tags)]),
           Assign(AWSIAMGroupBootstrapper,
                  [Type |-> TypeGroup, GroupName |-> t.BootstrapUser.GroupName])>>
    ELSE <<>>

\* step 2: the controllers ManagedPolicy
ControllersPolicyResources(t) ==
    <<Assign(ControllersPolicy,
             [Type |-> TypeManagedPolicy,
              ManagedPolicyName |-> NewManagedName(t, "controllers"),
              Description |-> "For the Kubernetes Cluster API Provider AWS Controllers",
              PolicyDocument |-> controllersPolicy(t),
              Groups |-> controllersPolicyGroups(t),
              Roles |-> controllersPolicyRoleAttachments(t)])>>

ControlPlanePolicyResources_ignoresToggle(t) ==
    <<Assign(ControlPlanePolicy,
             [Type |-> TypeManagedPolicy,
              ManagedPolicyName |-> NewManagedName(t, "control-plane"),
              Description |-> "For the Kubernetes Cloud Provider AWS Control Plane",
              PolicyDocument |-> cloudProviderControlPlaneAwsPolicy(t),
              Roles |-> cloudProviderControlPlaneAwsRoles(t)])>>

\* step 3: if !t.Spec.ControlPlane.DisableCloudProviderPolicy { ManagedPolicy }
ControlPlanePolicyResources(t) ==
    IF ~t.ControlPlane.DisableCloudProviderPolicy
    THEN <<Assign(ControlPlanePolicy,
                  [Type |-> TypeManagedPolicy,
                   ManagedPolicyName |-> NewManagedName(t, "control-plane"),
                   Description |-> "For the Kubernetes Cloud Provider AWS Control Plane",
                   PolicyDocument |-> cloudProviderControlPlaneAwsPolicy(t),
                   Roles |-> cloudProviderControlPlaneAwsRoles(t)])>>
    ELSE <<>>

NodePolicyResources_wrongKey(t) ==
    IF ~t.Nodes.DisableCloudProviderPolicy
    THEN <<Assign(ControlPlanePolicy,
                  [Type |-> TypeManagedPolicy,
                   ManagedPolicyName |-> NewManagedName(t, "nodes"),
                   Description |-> "For the Kubernetes Cloud Provider AWS nodes",
                   PolicyDocument |-> nodePolicy(t),
                   Roles |-> cloudProviderNodeAwsRoles(t)])>>
    ELSE <<>>

\* step 4: if !t.Spec.Nodes.DisableCloudProviderPolicy { ManagedPolicy }
NodePolicyResources(t) ==
    IF ~t.Nodes.DisableCloudProviderPolicy
    THEN <<Assign(NodePolicy,
                  [Type |-> TypeManagedPolicy,
                   ManagedPolicyName |-> NewManagedName(t, "nodes"),
                   Description |-> "For the Kubernetes Cloud Provider AWS nodes",
                   PolicyDocument |-> nodePolicy(t),
                   Roles |-> cloudProviderNodeAwsRoles(t)])>>
    ELSE <<>>

CSIPolicyResources_wrongKey(t) ==
    IF t.ControlPlane.EnableCSIPolicy
    THEN <<Assign(ControlPlanePolicy,
                  [Type |-> TypeManagedPolicy,
                   ManagedPolicyName |-> NewManagedName(t, "csi"),
                   Description |-> "For the AWS EBS CSI Driver for Kubernetes",
                   PolicyDocument |-> csiControllerPolicy(t),
                   Roles |-> csiControlPlaneAwsRoles(t)])>>
    ELSE <<>>

\* step 5: if t.Spec.ControlPlane.EnableCSIPolicy { ManagedPolicy }
CSIPolicyResources(t) ==
    IF t.ControlPlane.EnableCSIPolicy
    THEN <<Assign(CSIPolicy,
                  [Type |-> TypeManagedPolicy,
                   ManagedPolicyName |-> NewManagedName(t, "csi"),
                   Description |-> "For the AWS EBS CSI Driver for Kubernetes",
                   PolicyDocument |-> csiControllerPolicy(t),
                   Roles |-> csiControlPlaneAwsRoles(t)])>>
    ELSE <<>>

\* step 6: the control-plane, controllers and nodes Roles
RoleResources(t) ==
    <<Assign(AWSIAMRoleControlPlane,
             [Type |-> TypeRole,
              RoleName |-> NewManagedName(t, "control-plane"),
              AssumeRolePolicyDocument |-> controlPlaneTrustPolicy(t),
              ManagedPolicyArns |-> t.ControlPlane.ExtraPolicyAttachments,
              Policies |-> controlPlanePolicies(t),
              Tags |-> MapToCloudFormationTags(t.ControlPlane.Tags)]),
      Assign(AWSIAMRoleControllers,
             [Type |-> TypeRole,
              RoleName |-> NewManagedName(t, "controllers"),
              AssumeRolePolicyDocument |-> controllersTrustPolicy(t),
              Tags |-> MapToCloudFormationTags(t.ClusterAPIControllers.Tags)]),
      Assign(AWSIAMRoleNodes,
             [Type |-> TypeRole,
              RoleName |-> NewManagedName(t, "nodes"),
              AssumeRolePolicyDocument |-> nodeTrustPolicy(t),
              ManagedPolicyArns |-> t.Nodes.ExtraPolicyAttachments,
              Policies |-> nodePolicies(t),
              Tags |-> MapToCloudFormationTags(t.Nodes.Tags)])>>

InstanceProfileResources_wrongRole(t) ==
    <<Assign(AWSIAMInstanceProfileControlPlane,
             [Type |-> TypeInstanceProfile,
              InstanceProfileName |-> NewManagedName(t, "control-plane"),
              Roles |-> <<Ref(AWSIAMRoleEKSControlPlane)>>]),
      Assign(AWSIAMInstanceProfileControllers,
             [Type |-> TypeInstanceProfile,
              InstanceProfileName |-> NewManagedName(t, "controllers"),
              Roles |-> <<Ref(AWSIAMRoleControllers)>>]),
      Assign(AWSIAMInstanceProfileNodes,
             [Type |-> TypeInstanceProfile,
              InstanceProfileName |-> NewManagedName(t, "nodes"),
              Roles |-> <<Ref(AWSIAMRoleNodes)>>])>>

\* step 7: one InstanceProfile per Role of step 6
InstanceProfileResources(t) ==
    <<Assign(AWSIAMInstanceProfileControlPlane,
             [Type |-> TypeInstanceProfile,
              InstanceProfileName |-> NewManagedName(t, "control-plane"),
              Roles |-> <<Ref(AWSIAMRoleControlPlane)>>]),
      Assign(AWSIAMInstanceProfileControllers,
             [Type |-> TypeInstanceProfile,
              InstanceProfileName |-> NewManagedName(t, "controllers"),
              Roles |-> <<Ref(AWSIAMRoleControllers)>>]),
      Assign(AWSIAMInstanceProfileNodes,
             [Type |-> TypeInstanceProfile,
              InstanceProfileName |-> NewManagedName(t, "nodes"),
              Roles |-> <<Ref(AWSIAMRoleNodes)>>])>>

EKSControlPlaneRoleResources_always(t) ==
    <<Assign(AWSIAMRoleEKSControlPlane,
             [Type |-> TypeRole,
              RoleName |-> DefaultEKSControlPlaneRole,
              AssumeRolePolicyDocument |-> eksAssumeRolePolicy,
              ManagedPolicyArns |-> eksControlPlanePolicies(t),
              Tags |-> MapToCloudFormationTags(t.ManagedControlPlane.Tags)])>>

\* step 8: if !t.Spec.ManagedControlPlane.Disable { Role }
EKSControlPlaneRoleResources(t) ==
    IF ~t.ManagedControlPlane.Disable
    THEN <<Assign(AWSIAMRoleEKSControlPlane,
                  [Type |-> TypeRole,
                   RoleName |-> DefaultEKSControlPlaneRole,
                   AssumeRolePolicyDocument |-> eksAssumeRolePolicy,
                   ManagedPolicyArns |-> eksControlPlanePolicies(t),
                   Tags |-> MapToCloudFormationTags(t.ManagedControlPlane.Tags)])>>
    ELSE <<>>

\* the eight steps of RenderCloudFormation, numbered in program order
Steps == 1..8

StepResources(t, s) ==
    CASE s = 1 -> BootstrapUserResources(t)
      [] s = 2 -> ControllersPolicyResources(t)
      [] s = 3 -> ControlPlanePolicyResources(t)
      [] s = 4 -> NodePolicyResources(t)
      [] s = 5 -> CSIPolicyResources(t)
      [] s = 6 -> RoleResources(t)
      [] s = 7 -> InstanceProfileResources(t)
      [] s = 8 -> EKSControlPlaneRoleResources(t)

\* the steps whose composite literals call t.NewManagedName, which dereferences
\* t.Spec.NameSuffix
CallsNewManagedName(t, s) ==
    CASE s = 1 -> FALSE
      [] s = 2 -> TRUE
      [] s = 3 -> ~t.ControlPlane.DisableCloudProviderPolicy
      [] s = 4 -> ~t.Nodes.DisableCloudProviderPolicy
      [] s = 5 -> t.ControlPlane.EnableCSIPolicy
      [] s = 6 -> TRUE
      [] s = 7 -> TRUE
      [] s = 8 -> FALSE

\* a nil dereference: the call panics before the step assigns anything that
\* needs the name
StepPanics(t, s) == CallsNewManagedName(t, s) /\ t.NameSuffix = Nil

\* template.Resources[key] = resource
Put(m, key, resource) == (key :> resource) @@ m

RECURSIVE PutAll(_, _)
PutAll(m, assignments) ==
    IF assignments = <<>> THEN m
    ELSE PutAll(Put(m, Head(assignments).key, Head(assignments).resource),
                Tail(assignments))

RECURSIVE CountAll(_, _)
CountAll(w, assignments) ==
    IF assignments = <<>> THEN w
    ELSE LET k == Head(assignments).key
         IN CountAll(IF k \in DOMAIN w THEN [w EXCEPT ![k] = @ + 1]
                     ELSE (k :> 1) @@ w,
                     Tail(assignments))

cfnNewTemplate_shared == template

\* cloudformation.NewTemplate(): a template with a fresh, empty Resources map
cfnNewTemplate == <<>>

\* the whole of RenderCloudFormation on a spec with a non-nil NameSuffix: the
\* steps in program order on a fresh template
RECURSIVE RenderFrom(_, _, _)
RenderFrom(t, m, s) ==
    IF s > 8 THEN m ELSE RenderFrom(t, PutAll(m, StepResources(t, s)), s + 1)

Render(t) == RenderFrom(t, cfnNewTemplate, 1)

----------------------------------------------------------------------------
(* Configuration Spec values *)

PolicyArn == "arn:aws:iam::aws:policy/AmazonEC2ContainerRegistryReadOnly"

\* the ExtraPolicyAttachments lists a group may carry
ExtraPolicyChoices == {[i \in 1..n |-> PolicyArn] : n \in 0..MaxExtraPolicies}

AWSIAMConfigurationSpec(prefix, suffix, user, cpDisable, csi, nodesDisable, eksDisable, userExtra, cpExtra, nodesExtra) ==
    [NamePrefix |-> prefix,
     NameSuffix |-> suffix,
     BootstrapUser |->
        [Enable |-> user,
         UserName |-> "bootstrapper.cluster-api-provider-aws.sigs.k8s.io",
         GroupName |-> "bootstrapper.cluster-api-provider-aws.sigs.k8s.io",
         ExtraPolicyAttachments |-> userExtra,
         Tags |-> ("group" :> "bootstrap-user")],
     ControlPlane |->
        [DisableCloudProviderPolicy |-> cpDisable,
         EnableCSIPolicy |-> csi,
         ExtraPolicyAttachments |-> cpExtra,
         Tags |-> ("group" :> "control-plane")],
     ClusterAPIControllers |-> [Tags |-> ("group" :> "controllers")],
     Nodes |->
        [DisableCloudProviderPolicy |-> nodesDisable,
         ExtraPolicyAttachments |-> nodesExtra,
         Tags |-> ("group" :> "nodes")],
     ManagedControlPlane |->
        [Disable |-> eksDisable,
         Tags |-> ("group" :> "managed-control-plane")]]

\* the specs RenderCloudFormation is run on: every combination of the toggles
\* and of the extra attachments, with and without a NameSuffix
RenderSpecs ==
    {AWSIAMConfigurationSpec("test-", suffix, user, cpDisable, csi, nodesDisable,
                             eksDisable, userExtra, cpExtra, nodesExtra) :
        suffix \in {Nil, PtrTo(".cluster-api")},
        user \in BOOLEAN, cpDisable \in BOOLEAN, csi \in BOOLEAN,
        nodesDisable \in BOOLEAN, eksDisable \in BOOLEAN,
        userExtra \in ExtraPolicyChoices, cpExtra \in ExtraPolicyChoices,
        nodesExtra \in ExtraPolicyChoices}

\* the specs the steps are reordered on: every combination of the toggles, the
\* groups carrying the same extra attachments
AnyOrderSpecs ==
    {AWSIAMConfigurationSpec("test-", suffix, user, cpDisable, csi, nodesDisable,
                             eksDisable, extra, extra, extra) :
        suffix \in {Nil, PtrTo(".cluster-api")},
        user \in BOOLEAN, cpDisable \in BOOLEAN, csi \in BOOLEAN,
        nodesDisable \in BOOLEAN, eksDisable \in BOOLEAN,
        extra \in ExtraPolicyChoices}

NamePrefixes == {"", "test-", "capa-"}
NameSuffixes == {Nil, PtrTo(""), PtrTo(".cluster-api"),
                 PtrTo(".cluster-api-provider-aws.sigs.k8s.io")}
BaseNames == {"controllers", "control-plane", "nodes", "csi"}
PrincipalIDs == {"ec2.amazonaws.com", "eks.amazonaws.com", "lambda.amazonaws.com"}

\* the specs the builder functions are called on
BuilderSpecs ==
    {AWSIAMConfigurationSpec(prefix, suffix, user, FALSE, csi, FALSE, FALSE,
                             <<>>, <<>>, <<>>) :
        prefix \in NamePrefixes, suffix \in NameSuffixes,
        user \in BOOLEAN, csi \in BOOLEAN}

NoCall == [fn |-> "none"]

----------------------------------------------------------------------------
(* RenderCloudFormation as a state machine *)

InitWith(specs, ordered) ==
    /\ spec \in specs
    /\ template = <<>>
    /\ pending = Steps
    /\ pc = "idle"
    /\ writes = <<>>
    /\ inOrder = ordered
    /\ outOfOrder = FALSE
    /\ results = <<>>
    /\ call = NoCall

\* the program: the steps of RenderCloudFormation run in program order
Init == InitWith(RenderSpecs, TRUE)

\* the steps of RenderCloudFormation run in any order
InitAnyOrder == InitWith(AnyOrderSpecs, FALSE)

\* entry of RenderCloudFormation: template := cloudformation.NewTemplate()
RenderCloudFormation ==
    /\ pc = "idle"
    /\ pc' = "running"
    /\ template' = cfnNewTemplate
    /\ pending' = Steps
    /\ writes' = <<>>
    /\ outOfOrder' = FALSE
    /\ UNCHANGED <<spec, inOrder, results, call>>

\* step s of the running call may execute
Ready(s) ==
    /\ pc = "running"
    /\ s \in pending
    /\ inOrder => \A u \in pending : s <= u

\* step s executes: its assignments to template.Resources, or the panic of a
\* nil NameSuffix
Execute(s, assignments) ==
    /\ IF StepPanics(spec, s)
       THEN /\ pc' = "panicked"
            /\ UNCHANGED <<template, pending, writes, outOfOrder>>
       ELSE /\ template' = PutAll(template, assignments)
            /\ writes' = CountAll(writes, assignments)
            /\ pending' = pending \ {s}
            /\ outOfOrder' = (outOfOrder \/ \E u \in pending : u < s)
            /\ pc' = pc
    /\ UNCHANGED <<spec, inOrder, results, call>>

EmitBootstrapUser ==
    /\ Ready(1)
    /\ Execute(1, BootstrapUserResources(spec))

EmitControllersPolicy ==
    /\ Ready(2)
    /\ Execute(2, ControllersPolicyResources(spec))

EmitControlPlanePolicy ==
    /\ Ready(3)
    /\ Execute(3, ControlPlanePolicyResources(spec))

EmitNodePolicy ==
    /\ Ready(4)
    /\ Execute(4, NodePolicyResources(spec))

EmitCSIPolicy ==
    /\ Ready(5)
    /\ Execute(5, CSIPolicyResources(spec))

EmitRoles ==
    /\ Ready(6)
    /\ Execute(6, RoleResources(spec))

EmitInstanceProfiles ==
    /\ Ready(7)
    /\ Execute(7, InstanceProfileResources(spec))

EmitEKSControlPlaneRole ==
    /\ Ready(8)
    /\ Execute(8, EKSControlPlaneRoleResources(spec))

\* return template
Return ==
    /\ pc = "running"
    /\ pending = {}
    /\ pc' = "idle"
    /\ results' = (spec.ControlPlane.EnableCSIPolicy :> template) @@ results
    /\ UNCHANGED <<spec, template, pending, writes, inOrder, outOfOrder, call>>

\* between two calls the caller sets t.Spec.ControlPlane.EnableCSIPolicy
SetEnableCSIPolicy(b) ==
    /\ pc = "idle"
    /\ b # spec.ControlPlane.EnableCSIPolicy
    /\ spec' = [spec EXCEPT !.ControlPlane.EnableCSIPolicy = b]
    /\ UNCHANGED <<template, pending, pc, writes, inOrder, outOfOrder, results, call>>

Next ==
    \/ RenderCloudFormation
    \/ EmitBootstrapUser
    \/ EmitControllersPolicy
    \/ EmitControlPlanePolicy
    \/ EmitNodePolicy
    \/ EmitCSIPolicy
    \/ EmitRoles
    \/ EmitInstanceProfiles
    \/ EmitEKSControlPlaneRole
    \/ Return
    \/ \E b \in BOOLEAN : SetEnableCSIPolicy(b)

Spec == Init /\ [][Next]_vars

SpecAnyOrder == InitAnyOrder /\ [][Next]_vars

----------------------------------------------------------------------------
(* The builder functions called on their own *)

InitBuilders == InitWith(BuilderSpecs, TRUE)

\* t.NewManagedName(name): panics on a nil NameSuffix
CallNewManagedName(name) ==
    /\ call' = IF spec.NameSuffix = Nil
               THEN [fn |-> "NewManagedName", arg |-> name, panicked |-> TRUE]
               ELSE [fn |-> "NewManagedName", arg |-> name, panicked |-> FALSE,
                     result |-> NewManagedName(spec, name)]
    /\ UNCHANGED <<spec, template, pending, pc, writes, inOrder, outOfOrder, results>>

CallAssumeRolePolicy(principalID) ==
    /\ call' = [fn |-> "assumeRolePolicy", arg |-> principalID,
                result |-> assumeRolePolicy(principalID)]
    /\ UNCHANGED <<spec, template, pending, pc, writes, inOrder, outOfOrder, results>>

CallEc2AssumeRolePolicy ==
    /\ call' = [fn |-> "ec2AssumeRolePolicy", arg |-> "ec2.amazonaws.com",
                result |-> ec2AssumeRolePolicy]
    /\ UNCHANGED <<spec, template, pending, pc, writes, inOrder, outOfOrder, results>>

NextBuilders ==
    \/ \E name \in BaseNames : CallNewManagedName(name)
    \/ \E principalID \in PrincipalIDs : CallAssumeRolePolicy(principalID)
    \/ CallEc2AssumeRolePolicy

SpecBuilders == InitBuilders /\ [][NextBuilders]_vars

----------------------------------------------------------------------------
(* Properties *)

\* every step has executed: template.Resources is the map about to be returned
Rendered == pc = "running" /\ pending = {}

\* the logical names of the resources of a type
OfType(m, type) == {k \in DOMAIN m : m[k].Type = type}

\* m and n hold the same resource under every logical name of keys
SameOn(m, n, keys) == \A k \in keys : k \in DOMAIN m /\ k \in DOMAIN n /\ m[k] = n[k]

\* every InstanceProfile of m references exactly one Role present in m
InstanceProfilesResolve(m) ==
    \A k \in OfType(m, TypeInstanceProfile) :
        /\ Len(m[k].Roles) = 1
        /\ \A r \in Range(m[k].Roles) : r.Ref \in OfType(m, TypeRole)

\* every attachment target of every ManagedPolicy of m is a key of m
ManagedPoliciesResolve(m) ==
    \A k \in OfType(m, TypeManagedPolicy) :
        /\ \A r \in Range(m[k].Roles) : r.Ref \in OfType(m, TypeRole)
        /\ "Groups" \in DOMAIN m[k] =>
              \A g \in Range(m[k].Groups) : g.Ref \in OfType(m, TypeGroup)

AlwaysRoles == {AWSIAMRoleControlPlane, AWSIAMRoleControllers, AWSIAMRoleNodes}
AlwaysInstanceProfiles ==
    {AWSIAMInstanceProfileControlPlane, AWSIAMInstanceProfileControllers,
     AWSIAMInstanceProfileNodes}

\* C1 as stated: the returned map holds exactly three Role resources and exactly
\* three InstanceProfile resources, each InstanceProfile referencing a Role of
\* the map.
C1_ExactlyThreeRoles ==
    Rendered =>
        /\ Cardinality(OfType(template, TypeRole)) = 3
        /\ Cardinality(OfType(template, TypeInstanceProfile)) = 3
        /\ InstanceProfilesResolve(template)

\* C1 amended: the returned map holds the control-plane, controllers and nodes
\* Roles, and no other Role except the managed-control-plane Role, which it
\* holds exactly when ManagedControlPlane.Disable is false; it holds exactly
\* the three InstanceProfiles, each referencing a Role of the map.
C1_RolesAndInstanceProfiles ==
    Rendered =>
        /\ OfType(template, TypeRole) =
              AlwaysRoles \cup (IF spec.ManagedControlPlane.Disable THEN {}
                                ELSE {AWSIAMRoleEKSControlPlane})
        /\ OfType(template, TypeInstanceProfile) = AlwaysInstanceProfiles
        /\ Cardinality(OfType(template, TypeInstanceProfile)) = 3
        /\ InstanceProfilesResolve(template)

C1_Witness ==
    /\ Rendered
    /\ ~spec.ManagedControlPlane.Disable
    /\ Cardinality(OfType(template, TypeRole)) = 4
    /\ Cardinality(OfType(template, TypeInstanceProfile)) = 3

\* C2: with BootstrapUser disabled the returned map holds neither the User nor
\* the Group resource (nor any resource of those types); with it enabled it
\* holds both.
C2_UserAndGroupFollowToggle ==
    Rendered =>
        /\ (AWSIAMUserBootstrapper \in DOMAIN template) = spec.BootstrapUser.Enable
        /\ (AWSIAMGroupBootstrapper \in DOMAIN template) = spec.BootstrapUser.Enable
        /\ OfType(template, TypeUser) =
              IF spec.BootstrapUser.Enable THEN {AWSIAMUserBootstrapper} ELSE {}
        /\ OfType(template, TypeGroup) =
              IF spec.BootstrapUser.Enable THEN {AWSIAMGroupBootstrapper} ELSE {}

C2_Witness ==
    /\ Rendered
    /\ ~spec.BootstrapUser.Enable
    /\ AWSIAMGroupBootstrapper \notin DOMAIN template

\* the spec with ControlPlane.DisableCloudProviderPolicy set to b
WithControlPlaneDisable(t, b) ==
    [t EXCEPT !.ControlPlane.DisableCloudProviderPolicy = b]

\* C3 as stated: setting ControlPlane.DisableCloudProviderPolicy removes the
\* control-plane ManagedPolicy and removes its reference from the
\* control-plane Role's attached list (the list loses one entry), every other
\* resource being identical.
C3_RoleAttachmentRemoved ==
    (Rendered /\ ~spec.ControlPlane.DisableCloudProviderPolicy) =>
        LET enabled == template
            disabled == Render(WithControlPlaneDisable(spec, TRUE))
        IN /\ DOMAIN disabled = DOMAIN enabled \ {ControlPlanePolicy}
           /\ ControlPlanePolicy \in DOMAIN enabled
           /\ Len(disabled[AWSIAMRoleControlPlane].ManagedPolicyArns) =
                 Len(enabled[AWSIAMRoleControlPlane].ManagedPolicyArns) - 1
           /\ Range(disabled[AWSIAMRoleControlPlane].ManagedPolicyArns) \subseteq
                 Range(enabled[AWSIAMRoleControlPlane].ManagedPolicyArns)
           /\ SameOn(enabled, disabled, DOMAIN disabled \ {AWSIAMRoleControlPlane})

\* C3 amended: setting ControlPlane.DisableCloudProviderPolicy removes exactly
\* the control-plane ManagedPolicy, whose own Roles list is what attached it to
\* the control-plane Role; the control-plane Role, its attached list included,
\* and every other resource are identical.
C3_OnlyManagedPolicyRemoved ==
    Rendered =>
        LET other == Render(WithControlPlaneDisable(
                                spec, ~spec.ControlPlane.DisableCloudProviderPolicy))
            enabled == IF spec.ControlPlane.DisableCloudProviderPolicy
                       THEN other ELSE template
            disabled == IF spec.ControlPlane.DisableCloudProviderPolicy
                        THEN template ELSE other
        IN /\ DOMAIN disabled = DOMAIN enabled \ {ControlPlanePolicy}
           /\ ControlPlanePolicy \in DOMAIN enabled
           /\ enabled[ControlPlanePolicy].Type = TypeManagedPolicy
           /\ enabled[ControlPlanePolicy].Roles = <<Ref(AWSIAMRoleControlPlane)>>
           /\ SameOn(enabled, disabled, DOMAIN disabled)

C3_Witness ==
    /\ Rendered
    /\ spec.ControlPlane.DisableCloudProviderPolicy
    /\ ControlPlanePolicy \notin DOMAIN template
    /\ AWSIAMRoleControlPlane \in DOMAIN template

\* C4: setting ManagedControlPlane.Disable removes the managed-control-plane
\* Role and leaves the control-plane, controllers and nodes Roles and every
\* other resource unchanged.
C4_OnlyEKSRoleRemoved ==
    Rendered =>
        LET other == Render([spec EXCEPT !.ManagedControlPlane.Disable =
                                            ~spec.ManagedControlPlane.Disable])
            enabled == IF spec.ManagedControlPlane.Disable THEN other ELSE template
            disabled == IF spec.ManagedControlPlane.Disable THEN template ELSE other
        IN /\ DOMAIN disabled = DOMAIN enabled \ {AWSIAMRoleEKSControlPlane}
           /\ AWSIAMRoleEKSControlPlane \in DOMAIN enabled
           /\ enabled[AWSIAMRoleEKSControlPlane].Type = TypeRole
           /\ AlwaysRoles \subseteq DOMAIN disabled
           /\ SameOn(enabled, disabled, DOMAIN disabled)

C4_Witness ==
    /\ Rendered
    /\ spec.ManagedControlPlane.Disable
    /\ AWSIAMRoleEKSControlPlane \notin DOMAIN template
    /\ AlwaysRoles \subseteq DOMAIN template

\* C5: the map returned with EnableCSIPolicy set is the map returned without it
\* plus exactly one ManagedPolicy, the CSI policy, attached to the
\* control-plane Role; and a call on a spec a map was already returned for
\* builds the same map again.
C5_CSIAddsOnePolicyReproducibly ==
    /\ (TRUE \in DOMAIN results /\ FALSE \in DOMAIN results) =>
          /\ DOMAIN results[TRUE] = DOMAIN results[FALSE] \cup {CSIPolicy}
          /\ CSIPolicy \notin DOMAIN results[FALSE]
          /\ results[TRUE][CSIPolicy].Type = TypeManagedPolicy
          /\ results[TRUE][CSIPolicy].Roles = <<Ref(AWSIAMRoleControlPlane)>>
          /\ Cardinality(OfType(results[TRUE], TypeManagedPolicy)) =
                Cardinality(OfType(results[FALSE], TypeManagedPolicy)) + 1
          /\ SameOn(results[TRUE], results[FALSE], DOMAIN results[FALSE])
    /\ (Rendered /\ spec.ControlPlane.EnableCSIPolicy \in DOMAIN results) =>
          template = results[spec.ControlPlane.EnableCSIPolicy]

C5_Witness ==
    /\ Rendered
    /\ DOMAIN results = BOOLEAN
    /\ spec.ControlPlane.EnableCSIPolicy
    /\ CSIPolicy \in DOMAIN template

\* C6: for a non-nil suffix NewManagedName(base) is prefix, base and suffix
\* concatenated, whatever the rest of the spec; "test-", "nodes",
\* ".cluster-api" give "test-nodes.cluster-api".
C6_NameIsConcatenation ==
    (call.fn = "NewManagedName" /\ spec.NameSuffix # Nil) =>
        /\ ~call.panicked
        /\ call.result = (spec.NamePrefix \o call.arg) \o spec.NameSuffix[1]
        /\ Len(call.result) =
              Len(spec.NamePrefix) + Len(call.arg) + Len(spec.NameSuffix[1])
        /\ (/\ spec.NamePrefix = "test-"
            /\ call.arg = "nodes"
            /\ spec.NameSuffix[1] = ".cluster-api")
              => call.result = "test-nodes.cluster-api"

C6_Witness ==
    /\ call.fn = "NewManagedName"
    /\ spec.NamePrefix = "test-"
    /\ call.arg = "nodes"
    /\ spec.NameSuffix = PtrTo(".cluster-api")
    /\ call.result = "test-nodes.cluster-api"

\* C7: assumeRolePolicy(principal) is a document with one version identifier
\* and exactly one statement: effect Allow, principal the given service, sole
\* action sts:AssumeRole.
C7_TrustPolicyShape ==
    call.fn \in {"assumeRolePolicy", "ec2AssumeRolePolicy"} =>
        /\ call.result.Version = "2012-10-17"
        /\ Len(call.result.Statement) = 1
        /\ call.result.Statement[1].Effect = "Allow"
        /\ DOMAIN call.result.Statement[1].Principal = {"Service"}
        /\ call.result.Statement[1].Principal["Service"] = <<call.arg>>
        /\ call.result.Statement[1].Action = <<"sts:AssumeRole">>
        /\ DOMAIN call.result = {"Version", "Statement"}
        /\ DOMAIN call.result.Statement[1] = {"Effect", "Principal", "Action"}

C7_Witness ==
    /\ call.fn = "assumeRolePolicy"
    /\ call.arg = "eks.amazonaws.com"
    /\ call.result.Statement[1].Principal["Service"] = <<"eks.amazonaws.com">>

\* C8: whatever the order the eight steps execute in, the final map is the map
\* of the program order, and every InstanceProfile's Role and every
\* ManagedPolicy's attachment target is a key of the final map.
C8_OrderIndependent ==
    Rendered =>
        /\ template = Render(spec)
        /\ InstanceProfilesResolve(template)
        /\ ManagedPoliciesResolve(template)

C8_Witness ==
    /\ Rendered
    /\ outOfOrder
    /\ ~inOrder
    /\ spec.BootstrapUser.Enable
    /\ spec.ControlPlane.EnableCSIPolicy

\* C9: with BootstrapUser enabled, the User's attached managed policies are the
\* BootstrapUser group's own ExtraPolicyAttachments.
C9_UserAttachmentsAreOwn ==
    (Rendered /\ spec.BootstrapUser.Enable) =>
        template[AWSIAMUserBootstrapper].ManagedPolicyArns =
            spec.BootstrapUser.ExtraPolicyAttachments

\* the number of assignments a call on t executes
ExpectedResources(t) ==
    7 + (IF t.BootstrapUser.Enable THEN 2 ELSE 0)
      + (IF ~t.ControlPlane.DisableCloudProviderPolicy THEN 1 ELSE 0)
      + (IF ~t.Nodes.DisableCloudProviderPolicy THEN 1 ELSE 0)
      + (IF t.ControlPlane.EnableCSIPolicy THEN 1 ELSE 0)
      + (IF ~t.ManagedControlPlane.Disable THEN 1 ELSE 0)

C10_WrittenOnce ==
    pc = "running" =>
        /\ DOMAIN writes = DOMAIN template
        /\ \A k \in DOMAIN writes : writes[k] = 1
        /\ pending = {} => Cardinality(DOMAIN template) = ExpectedResources(spec)

C10_NeverOverwritten ==
    (pc = "running" /\ pc' = "running") =>
        \A k \in DOMAIN template : k \in DOMAIN template' /\ template'[k] = template[k]

\* C10: during one call each logical name is assigned at most once, no step
\* changes or removes a resource already in the map, and the final map holds
\* one resource per executed assignment: 7, plus 2 for BootstrapUser, plus 1
\* each for the control-plane policy, the nodes policy, the CSI policy and the
\* managed-control-plane Role.
C10_OneResourcePerInsertion ==
    /\ [](C10_WrittenOnce)
    /\ [][C10_NeverOverwritten]_vars

C10_Witness ==
    /\ Rendered
    /\ Cardinality(DOMAIN template) = 13
    /\ \A k \in DOMAIN writes : writes[k] = 1

====
